---- MODULE Spec2Model ----
(***************************************************************************)
(* Model of the feo-tracing subscriber (feo-tracing/src/subscriber.rs):    *)
(* producer threads calling the tracing facade, the bounded mpsc channel,  *)
(* the span id counter, the `enabled` latch and the serializing worker     *)
(* thread writing through a BufWriter to the feo-tracer unix socket.       *)
(***************************************************************************)
EXTENDS Integers, Sequences, FiniteSets

(* ------------------------------ bounds --------------------------------- *)

\* Number of facade calls the producer threads issue in total.
MaxCalls == 3

\* Last tick of the discrete clock.
MaxTime == 2

\* Capacity of the sync_channel in packets.  The source passes 512; the model
\* is parametric in the capacity and is checked with a scaled-down value.
MPSC_CHANNEL_BOUND == 1

\* Capacity of the BufWriter in serialized packets.  The source gives it
\* 512 * MAX_PACKET_SIZE bytes, i.e. room for at least 512 serialized packets;
\* scaled down like the channel.
BUFWRITER_SIZE == 2

\* FLUSH_INTERVAL (500 ms in the source) in clock ticks.
FLUSH_INTERVAL == 1

\* Capacity of the name buffer in bytes, scaled down.
MAX_INFO_SIZE == 4

\* Longest metadata name, in characters.
MaxNameChars == 3

\* The producer (application) threads sharing the global default subscriber.
Threads == {1, 2}

(* ------------------------------ state ---------------------------------- *)

VARIABLES
    NEXT_ID,        \* static NEXT_ID: AtomicU64 of new_span_id
    enabled,        \* Subscriber.enabled: Arc<AtomicBool>
    queue,          \* packets held by the sync_channel, sender side first in
    receiver,       \* TRUE while the worker's mpsc::Receiver exists
    wpc,            \* position of the worker thread in thread_main
    packet,         \* the worker's local `packet` (<<>> when it holds none)
    socket_writer,  \* packets buffered in the BufWriter, not yet on the socket
    last_flush,     \* the worker's local `last_flush`
    sink,           \* packets written to the socket, in write order
    listening,      \* TRUE while a collector listens on UNIX_PACKET_PATH
    stalled,        \* TRUE while the collector does not read and the socket is full
    now,            \* the clock read by Instant::now()
    tpc,            \* per producer thread: position inside the facade call
    call,           \* per producer thread: the packet of the call in progress
    ncalls,         \* per producer thread: number of facade calls started
    ret,            \* per producer thread: the ids its new_span calls returned
    outcome,        \* per producer thread: how its last completed call's send ended
    io_failed,      \* history: "none", "connect", "write" or "flush"
    woken,          \* history: threads blocked in send when the receiver was dropped
    max_level,      \* Subscriber.max_level: LevelFilter
    entered,        \* per producer thread: spans entered and not yet exited
    global_default, \* which init call's subscriber is tracing's global default
    init_pc,        \* position of a second call of init()
    sender2,        \* TRUE while the second call's subscriber holds its sender
    enabled2,       \* the `enabled` flag the second call created
    wpc2,           \* position of the worker thread the second call spawned
    name,           \* bytes of the metadata name last passed to truncate
    name_buf,       \* the meaningful bytes of the packet's `name` buffer
    name_len,       \* the packet's `name_len`
    admitted        \* history: the packets the channel admitted, in that order

vars == <<NEXT_ID, enabled, queue, receiver, wpc, packet, socket_writer,
          last_flush, sink, listening, stalled, now, tpc, call, ncalls, ret,
          outcome, io_failed, woken, max_level, entered, global_default,
          init_pc, sender2, enabled2, wpc2, name, name_buf, name_len,
          admitted>>

worker_vars == <<wpc, packet, socket_writer, last_flush, sink, io_failed>>
producer_vars == <<tpc, call, ncalls, ret, outcome, NEXT_ID, entered>>
name_vars == <<name, name_buf, name_len>>
second_vars == <<init_pc, sender2, enabled2, wpc2>>
setup_vars == <<max_level, global_default, init_pc, sender2, enabled2, wpc2>>
env_vars == <<listening, stalled, now>>

NoPacket == <<>>

\* SubSeq that is total on k = 0 and k = Len(s).
Take(s, k) == SubSeq(s, 1, k)
Drop(s, k) == SubSeq(s, k + 1, Len(s))

(* ------------------------------ levels --------------------------------- *)

\* tracing::Level as the usize of its representation: the most verbose level
\* has the smallest number.
TRACE == 0
DEBUG == 1
INFO == 2
WARN == 3
ERROR == 4
Levels == {TRACE, DEBUG, INFO, WARN, ERROR}

\* LevelFilter::OFF as a usize: one past Level::ERROR.  The other filters have
\* the number of their level.
OFF == 5
LevelFilters == Levels \cup {OFF}

\* The level in the metadata of the callsites thread t executes.
CallsiteLevel(t) == IF t = 1 THEN INFO ELSE TRACE

(* ------------------------------ init ----------------------------------- *)

\* State after init(level): channel created, enabled = true, worker spawned
\* and about to connect, max_level = level, NEXT_ID = 1.  Whether a collector
\* listens is up to the environment.
Init ==
    /\ NEXT_ID = 1
    /\ enabled = TRUE
    /\ queue = <<>>
    /\ receiver = TRUE
    /\ wpc = "connect"
    /\ packet = NoPacket
    /\ socket_writer = <<>>
    /\ last_flush = 0
    /\ sink = <<>>
    /\ listening \in BOOLEAN
    /\ stalled = FALSE
    /\ now = 0
    /\ tpc = [t \in Threads |-> "idle"]
    /\ call = [t \in Threads |-> NoPacket]
    /\ ncalls = [t \in Threads |-> 0]
    /\ ret = [t \in Threads |-> <<>>]
    /\ outcome = [t \in Threads |-> "none"]
    /\ io_failed = "none"
    /\ woken = {}
    /\ max_level \in LevelFilters
    /\ entered = [t \in Threads |-> <<>>]
    /\ global_default = 1
    /\ init_pc = "none"
    /\ sender2 = FALSE
    /\ enabled2 = FALSE
    /\ wpc2 = "none"
    /\ name = <<>>
    /\ name_buf = <<>>
    /\ name_len = 0
    /\ admitted = <<>>

(* --------------------------- facade (producers) ------------------------ *)

\* parent_span / span value standing for Option::None.
None == 0

\* TracePacket built by a facade call: the TraceData variant and its span
\* field, the calling thread and the index of the call on that thread (so that
\* packets are distinguishable), and the time the channel admitted it.
Packet(t, kind, span) ==
    [src |-> t, n |-> ncalls[t] + 1, kind |-> kind, span |-> span, enq |-> 0]

\* The ids new_span has returned to thread t so far.
IdsOf(t) == {ret[t][i] : i \in 1 .. Len(ret[t])}

\* Mutant: the counter is read without being advanced.
FetchAdd_Load(v) == v

\* new_span_id: NEXT_ID.fetch_add(1, Relaxed) returns the previous value and
\* stores its successor.  The AtomicU64 wraps at 2^64, far beyond the number
\* of allocations MaxCalls admits.
FetchAdd(v) == v + 1

\* Number of callsites executed so far.
TotalCalls == ncalls[1] + ncalls[2]

\* Mutant: the comparison taken on the representation, where the most verbose
\* level is the smallest.
EnabledFor_Usize(level) == level <= max_level

\* Subscriber::enabled: metadata.level() <= &self.max_level.  A Level is at or
\* below a LevelFilter when the filter's number is at most the level's.
EnabledFor(level) == max_level <= level

\* A callsite whose level the subscriber does not enable: the instrumentation
\* asks enabled(metadata), gets false and builds no span or event, so no
\* facade call is made.
filtered(t) ==
    /\ tpc[t] = "idle"
    /\ TotalCalls < MaxCalls
    /\ ~EnabledFor(CallsiteLevel(t))
    /\ ncalls' = [ncalls EXCEPT ![t] = @ + 1]
    /\ UNCHANGED <<tpc, call, ret, outcome, NEXT_ID, entered>>
    /\ UNCHANGED <<enabled, queue, receiver, woken>>
    /\ UNCHANGED worker_vars
    /\ UNCHANGED env_vars
    /\ UNCHANGED setup_vars
    /\ UNCHANGED name_vars
    /\ UNCHANGED admitted

\* Entry of a facade call up to the call of send(): builds the packet.
BeginCall(t, pkt) ==
    /\ tpc[t] = "idle"
    /\ TotalCalls < MaxCalls
    /\ call' = [call EXCEPT ![t] = pkt]
    /\ ncalls' = [ncalls EXCEPT ![t] = @ + 1]
    /\ tpc' = [tpc EXCEPT ![t] = "load"]
    /\ UNCHANGED <<enabled, queue, receiver, ret, outcome, woken>>
    /\ UNCHANGED worker_vars
    /\ UNCHANGED env_vars
    /\ UNCHANGED setup_vars
    /\ UNCHANGED name_vars
    /\ UNCHANGED admitted

\* new_span: allocate the id, build TraceData::NewSpan, then send.  The
\* instrumentation creates the span only at an enabled callsite.
new_span(t) ==
    /\ EnabledFor(CallsiteLevel(t))
    /\ BeginCall(t, Packet(t, "NewSpan", NEXT_ID))
    /\ NEXT_ID' = FetchAdd(NEXT_ID)
    /\ UNCHANGED entered

\* record(span): TraceData::Record { span }.
record(t) ==
    \E span \in IdsOf(t) :
        /\ BeginCall(t, Packet(t, "Record", span))
        /\ UNCHANGED <<NEXT_ID, entered>>

\* event: TraceData::Event { parent_span: self.current_span().id() }.  The
\* subscriber does not override current_span(), whose provided implementation
\* returns Current::unknown(), so id() is None.
event(t) ==
    /\ EnabledFor(CallsiteLevel(t))
    /\ BeginCall(t, Packet(t, "Event", None))
    /\ UNCHANGED <<NEXT_ID, entered>>

\* The spans on thread t's stack of entered spans.
EnteredBy(t) == {entered[t][i] : i \in 1 .. Len(entered[t])}

\* The stack without its most recent occurrence of span.
Leave(stack, span) ==
    LET last == CHOOSE i \in 1 .. Len(stack) :
                    /\ stack[i] = span
                    /\ \A j \in i + 1 .. Len(stack) : stack[j] # span
    IN  Take(stack, last - 1) \o Drop(stack, last)

\* enter(span): TraceData::Enter { span }.  The thread is inside the span from
\* here on; the subscriber itself keeps no record of that.
enter(t) ==
    \E span \in IdsOf(t) :
        /\ BeginCall(t, Packet(t, "Enter", span))
        /\ entered' = [entered EXCEPT ![t] = Append(@, span)]
        /\ UNCHANGED NEXT_ID

\* exit(span): TraceData::Exit { span }, called when the thread leaves a span
\* it has entered.
exit(t) ==
    \E span \in EnteredBy(t) :
        /\ BeginCall(t, Packet(t, "Exit", span))
        /\ entered' = [entered EXCEPT ![t] = Leave(@, span)]
        /\ UNCHANGED NEXT_ID

\* Mutant: new_span hands out its id only when the packet was enqueued.
Return_OnlySent(t, how) ==
    /\ tpc' = [tpc EXCEPT ![t] = "idle"]
    /\ outcome' = [outcome EXCEPT ![t] = how]
    /\ ret' = [ret EXCEPT ![t] =
                 IF call[t].kind = "NewSpan" /\ how = "sent"
                   THEN Append(@, call[t].span) ELSE @]

\* Return from the facade call: new_span hands its id to the caller.
Return(t, how) ==
    /\ tpc' = [tpc EXCEPT ![t] = "idle"]
    /\ outcome' = [outcome EXCEPT ![t] = how]
    /\ ret' = [ret EXCEPT ![t] =
                 IF call[t].kind = "NewSpan" THEN Append(@, call[t].span) ELSE @]

\* Mutant: send waits for room in the channel before it looks at the latch.
SendLoad_RoomFirst(t) ==
    /\ tpc[t] = "load"
    /\ Len(queue) < MPSC_CHANNEL_BOUND
    /\ IF enabled
         THEN /\ tpc' = [tpc EXCEPT ![t] = "send"]
              /\ UNCHANGED <<ret, outcome>>
         ELSE Return(t, "skipped")
    /\ UNCHANGED <<NEXT_ID, enabled, queue, receiver, call, ncalls, entered,
                   woken>>
    /\ UNCHANGED worker_vars
    /\ UNCHANGED env_vars
    /\ UNCHANGED setup_vars
    /\ UNCHANGED name_vars
    /\ UNCHANGED admitted

\* Mutant: send goes on to the channel without looking at the latch.
SendLoad_IgnoreLatch(t) ==
    /\ tpc[t] = "load"
    /\ tpc' = [tpc EXCEPT ![t] = "send"]
    /\ UNCHANGED <<ret, outcome>>
    /\ UNCHANGED <<NEXT_ID, enabled, queue, receiver, call, ncalls, entered,
                   woken>>
    /\ UNCHANGED worker_vars
    /\ UNCHANGED env_vars
    /\ UNCHANGED setup_vars
    /\ UNCHANGED name_vars
    /\ UNCHANGED admitted

\* send, line 237: if !self.enabled.load(Relaxed) { return; }
SendLoad(t) ==
    /\ tpc[t] = "load"
    /\ IF enabled
         THEN /\ tpc' = [tpc EXCEPT ![t] = "send"]
              /\ UNCHANGED <<ret, outcome>>
         ELSE Return(t, "skipped")
    /\ UNCHANGED <<NEXT_ID, enabled, queue, receiver, call, ncalls, entered,
                   woken>>
    /\ UNCHANGED worker_vars
    /\ UNCHANGED env_vars
    /\ UNCHANGED setup_vars
    /\ UNCHANGED name_vars
    /\ UNCHANGED admitted

\* Mutant: an unbounded channel.
ChannelHasRoom_Unbounded == TRUE

\* Mutant: the channel admits one packet more than its bound.
ChannelHasRoom_OffByOne == Len(queue) <= MPSC_CHANNEL_BOUND

\* SyncSender::send on a channel whose receiver exists: the packet is admitted
\* once the channel holds fewer than its bound; until then the caller blocks.
ChannelHasRoom == Len(queue) < MPSC_CHANNEL_BOUND

\* The packet of thread t's call as the channel admits it now.
Admitted(t) == [call[t] EXCEPT !.enq = now]

\* send, line 240, Ok branch: self.sender.send(packet) admits the packet.
SendOk(t) ==
    /\ tpc[t] = "send"
    /\ receiver
    /\ ChannelHasRoom
    /\ queue' = Append(queue, Admitted(t))
    /\ admitted' = Append(admitted, Admitted(t))
    /\ Return(t, "sent")
    /\ UNCHANGED <<NEXT_ID, enabled, receiver, call, ncalls, entered, woken>>
    /\ UNCHANGED worker_vars
    /\ UNCHANGED env_vars
    /\ UNCHANGED setup_vars
    /\ UNCHANGED name_vars

\* Mutant: try_send instead of send: a full channel is an error as well.
SendErr_TrySend(t) ==
    /\ tpc[t] = "send"
    /\ ~receiver \/ ~ChannelHasRoom
    /\ tpc' = [tpc EXCEPT ![t] = "store"]
    /\ UNCHANGED <<NEXT_ID, enabled, queue, receiver, call, ncalls, entered,
                   ret, outcome, woken>>
    /\ UNCHANGED worker_vars
    /\ UNCHANGED env_vars
    /\ UNCHANGED setup_vars
    /\ UNCHANGED name_vars
    /\ UNCHANGED admitted

\* send, line 240, Err branch: the receiver is gone, send returns SendError.
SendErr(t) ==
    /\ tpc[t] = "send"
    /\ ~receiver
    /\ tpc' = [tpc EXCEPT ![t] = "store"]
    /\ UNCHANGED <<NEXT_ID, enabled, queue, receiver, call, ncalls, entered,
                   ret, outcome, woken>>
    /\ UNCHANGED worker_vars
    /\ UNCHANGED env_vars
    /\ UNCHANGED setup_vars
    /\ UNCHANGED name_vars
    /\ UNCHANGED admitted

\* Mutant: the failed send flips the latch instead of clearing it.
SendStore_Toggle(t) ==
    /\ tpc[t] = "store"
    /\ enabled' = ~enabled
    /\ tpc' = [tpc EXCEPT ![t] = "idle"]
    /\ outcome' = [outcome EXCEPT ![t] = "failed"]
    /\ ret' = [ret EXCEPT ![t] =
                 IF call[t].kind = "NewSpan" THEN Append(@, call[t].span) ELSE @]
    /\ UNCHANGED <<NEXT_ID, queue, receiver, call, ncalls, entered, woken,
                   wpc, packet, socket_writer, last_flush, sink, io_failed,
                   listening, stalled, now>>
    /\ UNCHANGED setup_vars
    /\ UNCHANGED name_vars
    /\ UNCHANGED admitted

\* send, line 245: self.enabled.store(false, Relaxed), then return.
SendStore(t) ==
    /\ tpc[t] = "store"
    /\ enabled' = FALSE
    /\ Return(t, "failed")
    /\ UNCHANGED <<NEXT_ID, queue, receiver, call, ncalls, entered, woken>>
    /\ UNCHANGED worker_vars
    /\ UNCHANGED env_vars
    /\ UNCHANGED setup_vars
    /\ UNCHANGED name_vars
    /\ UNCHANGED admitted

(* ------------------------------- worker -------------------------------- *)

\* The unix stream exists from a successful connect until the worker's locals
\* are dropped.
Connected ==
    wpc \in {"recv", "write", "flush"}
    \/ (wpc \in {"return", "unwind"} /\ io_failed # "connect")

\* last_flush.elapsed() > FLUSH_INTERVAL
FlushDue == now - last_flush > FLUSH_INTERVAL

\* Mutant: the write takes the k newest buffered packets instead of the oldest.
FlushBuf_Newest(k) ==
    /\ sink' = sink \o Drop(socket_writer, Len(socket_writer) - k)

\* A write of the BufWriter's buffer to the socket (BufWriter::flush_buf)
\* that gets k of the buffered packets onto the socket: all of them when the
\* write succeeds, fewer when it ends in an error.
FlushBuf(k) ==
    /\ sink' = sink \o Take(socket_writer, k)

\* Mutant: a failed connect is tried again.
WorkerConnect_Retry ==
    /\ wpc = "connect"
    /\ IF listening
         THEN /\ wpc' = "recv"
              /\ last_flush' = now
              /\ UNCHANGED <<enabled, io_failed>>
         ELSE /\ enabled' = FALSE
              /\ io_failed' = "connect"
              /\ wpc' = "connect"
              /\ UNCHANGED last_flush
    /\ UNCHANGED <<queue, receiver, packet, socket_writer, sink, woken>>
    /\ UNCHANGED producer_vars
    /\ UNCHANGED env_vars
    /\ UNCHANGED setup_vars
    /\ UNCHANGED name_vars
    /\ UNCHANGED admitted

\* thread_main, lines 192-200: the single connect attempt.
WorkerConnect ==
    /\ wpc = "connect"
    /\ IF listening
         THEN /\ wpc' = "recv"
              /\ last_flush' = now
              /\ UNCHANGED <<enabled, io_failed>>
         ELSE /\ enabled' = FALSE
              /\ io_failed' = "connect"
              /\ wpc' = "return"
              /\ UNCHANGED last_flush
    /\ UNCHANGED <<queue, receiver, packet, socket_writer, sink, woken>>
    /\ UNCHANGED producer_vars
    /\ UNCHANGED env_vars
    /\ UNCHANGED setup_vars
    /\ UNCHANGED name_vars
    /\ UNCHANGED admitted

\* Receiver::recv on a non-empty channel: the oldest packet and what stays.
ChannelRecv(q) == [msg |-> Head(q), rest |-> Tail(q)]

\* Mutant: a packet that cannot be serialized ends the worker like an I/O
\* failure.
WorkerRecv_FatalSerialize ==
    /\ wpc = "recv"
    /\ queue # <<>>
    /\ queue' = ChannelRecv(queue).rest
    /\ \E serialized \in BOOLEAN :
         IF serialized
           THEN /\ packet' = ChannelRecv(queue).msg
                /\ wpc' = "write"
                /\ UNCHANGED enabled
           ELSE /\ packet' = NoPacket
                /\ wpc' = "return"
                /\ enabled' = FALSE
    /\ UNCHANGED <<receiver, socket_writer, last_flush, sink, io_failed, woken>>
    /\ UNCHANGED producer_vars
    /\ UNCHANGED env_vars
    /\ UNCHANGED setup_vars
    /\ UNCHANGED name_vars
    /\ UNCHANGED admitted

\* thread_main, lines 210-218: receiver.recv() takes the oldest packet, then
\* postcard::to_slice_cobs serializes it into the fixed buffer.  Whether a
\* packet fits is decided by its name and info contents, which the model does
\* not carry: both results are possible.  A packet that fails to serialize is
\* dropped and the loop continues.  (recv() fails only when every sender is
\* gone; the subscriber holding the sender is the global default and is never
\* dropped.)
WorkerRecv ==
    /\ wpc = "recv"
    /\ queue # <<>>
    /\ queue' = ChannelRecv(queue).rest
    /\ \E serialized \in BOOLEAN :
         IF serialized
           THEN /\ packet' = ChannelRecv(queue).msg
                /\ wpc' = "write"
           ELSE /\ packet' = NoPacket
                /\ wpc' = "recv"
    /\ UNCHANGED <<enabled, receiver, socket_writer, last_flush, sink,
                   io_failed, woken>>
    /\ UNCHANGED producer_vars
    /\ UNCHANGED env_vars
    /\ UNCHANGED setup_vars
    /\ UNCHANGED name_vars
    /\ UNCHANGED admitted

\* Mutant: the serialized packet is put in front of the bytes already buffered.
BufWrite_Front(buf, pkt) == <<pkt>> \o buf

\* BufWriter::write of bytes that fit: they are appended to the buffer.
BufWrite(buf, pkt) == Append(buf, pkt)

\* End of a loop iteration after a successful write_all, lines 227-231: the
\* flush is due only if the interval has elapsed.
AfterWrite ==
    /\ packet' = NoPacket
    /\ wpc' = IF FlushDue THEN "flush" ELSE "recv"
    /\ UNCHANGED <<enabled, io_failed, last_flush>>

\* Mutant: the write error is logged and the loop continues.
WriteFailed_Continue ==
    /\ io_failed' = "write"
    /\ wpc' = "recv"
    /\ packet' = NoPacket
    /\ UNCHANGED <<enabled, last_flush>>

\* thread_main, lines 221-225: write_all returned an error: store
\* enabled = false and return.
WriteFailed ==
    /\ enabled' = FALSE
    /\ io_failed' = "write"
    /\ wpc' = "return"
    /\ UNCHANGED <<packet, last_flush>>

\* thread_main, lines 220-225: socket_writer.write_all(serialized).  The
\* BufWriter keeps the bytes while they fit; otherwise it first writes its
\* buffer to the socket, which blocks while the peer does not read and can
\* end in an error after any part of the buffer.  On error the worker stores
\* enabled = false and returns.
WorkerWrite ==
    /\ wpc = "write"
    /\ IF Len(socket_writer) < BUFWRITER_SIZE
         THEN /\ socket_writer' = BufWrite(socket_writer, packet)
              /\ UNCHANGED sink
              /\ AfterWrite
         ELSE /\ ~stalled
              /\ \E k \in 0 .. Len(socket_writer) :
                   /\ FlushBuf(k)
                   /\ IF k = Len(socket_writer)
                        THEN /\ socket_writer' = BufWrite(<<>>, packet)
                             /\ AfterWrite
                        ELSE /\ socket_writer' = Drop(socket_writer, k)
                             /\ WriteFailed
    /\ UNCHANGED <<queue, receiver, woken>>
    /\ UNCHANGED producer_vars
    /\ UNCHANGED env_vars
    /\ UNCHANGED setup_vars
    /\ UNCHANGED name_vars
    /\ UNCHANGED admitted

\* thread_main, lines 228-231: socket_writer.flush().expect("failed to
\* flush"); last_flush = Instant::now().  A failed flush panics the thread.
WorkerFlush ==
    /\ wpc = "flush"
    /\ socket_writer = <<>> \/ ~stalled
    /\ \E k \in 0 .. Len(socket_writer) :
         /\ FlushBuf(k)
         /\ socket_writer' = Drop(socket_writer, k)
         /\ IF k = Len(socket_writer)
              THEN /\ last_flush' = now
                   /\ wpc' = "recv"
                   /\ UNCHANGED io_failed
              ELSE /\ io_failed' = "flush"
                   /\ wpc' = "unwind"
                   /\ UNCHANGED last_flush
    /\ UNCHANGED <<enabled, queue, receiver, packet, woken>>
    /\ UNCHANGED producer_vars
    /\ UNCHANGED env_vars
    /\ UNCHANGED setup_vars
    /\ UNCHANGED name_vars
    /\ UNCHANGED admitted

\* Threads blocked inside SyncSender::send on a full channel.
BlockedSenders == {t \in Threads : tpc[t] = "send" /\ receiver /\ ~ChannelHasRoom}

\* Mutant: instead of ending, the worker drops its connection and starts
\* over with a new connect.
WorkerExit_Reconnect ==
    /\ wpc \in {"return", "unwind"}
    /\ socket_writer = <<>> \/ ~stalled
    /\ \E k \in 0 .. Len(socket_writer) : FlushBuf(k)
    /\ socket_writer' = <<>>
    /\ packet' = NoPacket
    /\ wpc' = "connect"
    /\ UNCHANGED <<enabled, last_flush, io_failed, receiver, queue, woken>>
    /\ UNCHANGED producer_vars
    /\ UNCHANGED env_vars
    /\ UNCHANGED setup_vars
    /\ UNCHANGED name_vars
    /\ UNCHANGED admitted

\* Mutant: the worker leaves thread_main but the receiver outlives it.
WorkerExit_KeepReceiver ==
    /\ wpc \in {"return", "unwind"}
    /\ socket_writer = <<>> \/ ~stalled
    /\ \E k \in 0 .. Len(socket_writer) : FlushBuf(k)
    /\ socket_writer' = <<>>
    /\ packet' = NoPacket
    /\ woken' = BlockedSenders
    /\ wpc' = IF wpc = "return" THEN "returned" ELSE "panicked"
    /\ UNCHANGED <<enabled, last_flush, io_failed, receiver, queue>>
    /\ UNCHANGED producer_vars
    /\ UNCHANGED env_vars
    /\ UNCHANGED setup_vars
    /\ UNCHANGED name_vars
    /\ UNCHANGED admitted

\* The worker leaves thread_main (return at line 198 or 224, or unwinding from
\* the panic at line 229): its locals are dropped.  Dropping the BufWriter
\* writes what it still buffers to the socket and ignores the result;
\* dropping the Receiver disconnects the channel, discards the packets still
\* in it and wakes the senders blocked on it.
WorkerExit ==
    /\ wpc \in {"return", "unwind"}
    /\ socket_writer = <<>> \/ ~stalled
    /\ \E k \in 0 .. Len(socket_writer) : FlushBuf(k)
    /\ socket_writer' = <<>>
    /\ packet' = NoPacket
    /\ receiver' = FALSE
    /\ queue' = <<>>
    /\ woken' = BlockedSenders
    /\ wpc' = IF wpc = "return" THEN "returned" ELSE "panicked"
    /\ UNCHANGED <<enabled, last_flush, io_failed>>
    /\ UNCHANGED producer_vars
    /\ UNCHANGED env_vars
    /\ UNCHANGED setup_vars
    /\ UNCHANGED name_vars
    /\ UNCHANGED admitted

\* The worker has a step to take (it is not blocked in recv() or in a socket
\* write and has not terminated).
WorkerCanStep ==
    \/ wpc = "connect"
    \/ wpc = "recv" /\ queue # <<>>
    \/ wpc = "write" /\ (Len(socket_writer) < BUFWRITER_SIZE \/ ~stalled)
    \/ wpc \in {"flush", "return", "unwind"} /\ (socket_writer = <<>> \/ ~stalled)

(* ------------------------------- names --------------------------------- *)

\* A byte of UTF-8 text is modelled by its role: the first byte of a
\* character of w bytes is w, a continuation byte is 0.
Continuation == 0
Utf8Widths == 1 .. 4

\* The bytes of one character of w bytes.
Utf8(w) == [i \in 1 .. w |-> IF i = 1 THEN w ELSE Continuation]

\* The bytes of a string given by the widths of its characters.
RECURSIVE Encode(_)
Encode(chars) ==
    IF chars = <<>> THEN <<>> ELSE Utf8(Head(chars)) \o Encode(Tail(chars))

\* The metadata names (&'static str) the callsites pass: all strings of up to
\* MaxNameChars characters.
Names ==
    {Encode(chars) : chars \in UNION {[1 .. n -> Utf8Widths] : n \in 0 .. MaxNameChars}}

\* str::is_char_boundary: the start, the end, and every index whose byte is
\* not a continuation byte.
IsCharBoundary(s, k) ==
    \/ k = 0
    \/ k = Len(s)
    \/ (k < Len(s) /\ s[k + 1] # Continuation)

\* Mutant: the name is cut at the capacity wherever that falls.
FloorCharBoundary_Identity(s, k) == k

\* The largest character boundary of s at or before index k.
RECURSIVE FloorCharBoundary(_, _)
FloorCharBoundary(s, k) ==
    IF IsCharBoundary(s, k) THEN k ELSE FloorCharBoundary(s, k - 1)

\* protocol::truncate(s, buf): copies the longest prefix of s that fits the
\* buffer and ends on a character boundary, and returns its length.
truncate(s) ==
    LET fits == IF Len(s) < MAX_INFO_SIZE THEN Len(s) ELSE MAX_INFO_SIZE
        len == FloorCharBoundary(s, fits)
    IN  [buf |-> Take(s, len), len |-> len]

\* new_span, lines 263-264, and event, lines 287-288: the name of the
\* callsite's metadata is truncated into the packet's name buffer.
TruncateName ==
    /\ \E s \in Names :
         /\ name' = s
         /\ name_buf' = truncate(s).buf
         /\ name_len' = truncate(s).len
    /\ UNCHANGED <<NEXT_ID, enabled, queue, receiver, woken, admitted>>
    /\ UNCHANGED <<worker_vars, producer_vars, env_vars, setup_vars>>

(* ---------------------------- a second init ---------------------------- *)

\* What stays as it is during a second call of init(): the first pipeline,
\* its producers and the environment.
first_vars ==
    <<NEXT_ID, enabled, queue, receiver, woken, max_level, worker_vars,
      producer_vars, env_vars, name_vars, admitted>>

\* init, lines 44-54, called again: a second channel and a second `enabled`
\* are created, a second worker thread is spawned and a second Subscriber is
\* built around them.
InitAgain ==
    /\ init_pc = "none"
    /\ init_pc' = "spawned"
    /\ sender2' = TRUE
    /\ enabled2' = TRUE
    /\ wpc2' = "connect"
    /\ UNCHANGED global_default
    /\ UNCHANGED first_vars

\* Mutant: the rejected subscriber is kept alive instead of being dropped.
SetGlobalDefault_KeepSender ==
    /\ init_pc = "spawned"
    /\ global_default' = IF global_default = 0 THEN 2 ELSE global_default
    /\ init_pc' = "panicked"
    /\ UNCHANGED <<sender2, enabled2, wpc2>>
    /\ UNCHANGED first_vars

\* init, line 59, called again: set_global_default installs a subscriber only
\* when none is installed yet; otherwise it drops the subscriber it was given
\* (and with it the sender of the second channel) and returns Err, on which
\* expect panics.
SetGlobalDefault ==
    /\ init_pc = "spawned"
    /\ global_default' = IF global_default = 0 THEN 2 ELSE global_default
    /\ sender2' = (global_default = 0)
    /\ init_pc' = IF global_default = 0 THEN "returned" ELSE "panicked"
    /\ UNCHANGED <<enabled2, wpc2>>
    /\ UNCHANGED first_vars

\* thread_main of the second worker, lines 192-200: it connects to the same
\* collector socket as the first.
Worker2Connect ==
    /\ wpc2 = "connect"
    /\ IF listening
         THEN /\ wpc2' = "recv"
              /\ UNCHANGED enabled2
         ELSE /\ enabled2' = FALSE
              /\ wpc2' = "returned"
    /\ UNCHANGED <<global_default, init_pc, sender2>>
    /\ UNCHANGED first_vars

\* thread_main of the second worker, line 210: nothing is ever sent on the
\* second channel, so recv() blocks while the sender exists and returns Err
\* once it is dropped, on which expect panics; unwinding closes the second
\* connection.
Worker2Recv ==
    /\ wpc2 = "recv"
    /\ ~sender2
    /\ wpc2' = "panicked"
    /\ UNCHANGED <<global_default, init_pc, sender2, enabled2>>
    /\ UNCHANGED first_vars

\* The second worker thread runs.
Worker2Active == wpc2 \in {"connect", "recv"}

\* The second worker holds a connection to the collector.
Connected2 == wpc2 = "recv"

SecondInit ==
    \/ InitAgain
    \/ SetGlobalDefault
    \/ Worker2Connect
    \/ Worker2Recv

(* ----------------------------- environment ----------------------------- *)

\* A collector starts listening on the socket path.
CollectorStart ==
    /\ ~listening
    /\ listening' = TRUE
    /\ UNCHANGED <<stalled, now, enabled, queue, receiver, woken>>
    /\ UNCHANGED worker_vars
    /\ UNCHANGED producer_vars
    /\ UNCHANGED setup_vars
    /\ UNCHANGED name_vars
    /\ UNCHANGED admitted

\* The collector stops or resumes reading from the connection.
SinkStall ==
    /\ Connected
    /\ stalled' = ~stalled
    /\ UNCHANGED <<listening, now, enabled, queue, receiver, woken>>
    /\ UNCHANGED worker_vars
    /\ UNCHANGED producer_vars
    /\ UNCHANGED setup_vars
    /\ UNCHANGED name_vars
    /\ UNCHANGED admitted

\* Time passes.  The worker's own steps take no time on this clock: it
\* advances only while the worker is blocked or gone.
Tick ==
    /\ now < MaxTime
    /\ ~WorkerCanStep
    /\ now' = now + 1
    /\ UNCHANGED <<listening, stalled, enabled, queue, receiver, woken>>
    /\ UNCHANGED worker_vars
    /\ UNCHANGED producer_vars
    /\ UNCHANGED setup_vars
    /\ UNCHANGED name_vars
    /\ UNCHANGED admitted

(* --------------------------- specification ----------------------------- *)

Producer(t) ==
    \/ filtered(t)
    \/ new_span(t)
    \/ record(t)
    \/ event(t)
    \/ enter(t)
    \/ exit(t)
    \/ SendLoad(t)
    \/ SendOk(t)
    \/ SendErr(t)
    \/ SendStore(t)

Worker ==
    \/ WorkerConnect
    \/ WorkerRecv
    \/ WorkerWrite
    \/ WorkerFlush
    \/ WorkerExit

Environment ==
    \/ CollectorStart
    \/ SinkStall
    \/ Tick

Next ==
    \/ \E t \in Threads : Producer(t)
    \/ Worker
    \/ Environment

Spec == Init /\ [][Next]_vars

\* The same program under a collector that always reads: the socket never
\* stalls.
NextHealthy ==
    \/ \E t \in Threads : Producer(t)
    \/ Worker
    \/ CollectorStart
    \/ Tick

HealthySpec == Init /\ [][NextHealthy]_vars

\* The program under a scheduler that keeps running a producer thread that is
\* inside send() and not blocked there.
FairSpec ==
    /\ Init
    /\ [][Next]_vars
    /\ \A t \in Threads :
         WF_vars(SendLoad(t) \/ SendOk(t) \/ SendErr(t) \/ SendStore(t))

\* The healthy program under a scheduler that keeps running the worker thread
\* and every producer thread that is inside send(), unless they are blocked.
FairHealthySpec ==
    /\ Init
    /\ [][NextHealthy]_vars
    /\ WF_vars(Worker)
    /\ \A t \in Threads :
         WF_vars(SendLoad(t) \/ SendOk(t) \/ SendErr(t) \/ SendStore(t))

\* The program when init() is called a second time while the first pipeline
\* runs, under a scheduler that keeps running the second call and the worker
\* thread it spawned.
NextTwice ==
    \/ NextHealthy
    \/ SecondInit

TwiceSpec ==
    /\ Init
    /\ [][NextTwice]_vars
    /\ WF_vars(SetGlobalDefault)
    /\ WF_vars(Worker2Connect \/ Worker2Recv)

\* The truncation of names on its own, over all names.
NameSpec == Init /\ [][TruncateName]_vars

(* ------------------------------ properties ----------------------------- *)

\* Indices i < j of a sequence.
Pairs(s) == {ij \in (1 .. Len(s)) \X (1 .. Len(s)) : ij[1] < ij[2]}

C2_LatchMonotonic ==
    /\ enabled = TRUE
    /\ [][enabled = FALSE => enabled' = FALSE]_vars

\* C2 witness: the latch is false and was stored a second time (a facade
\* send failed after the worker had already disabled the pipeline).
C2_Witness ==
    /\ enabled = FALSE
    /\ io_failed # "none"
    /\ \E t \in Threads : outcome[t] = "failed"

\* C3 (as claimed): once a connect or socket write has failed, nothing more
\* is written to the sink.
C3_NothingAfterFailure == [][io_failed # "none" => sink' = sink]_vars

\* Packets admitted to the channel that have not reached the socket and have
\* not been dropped.
Undelivered ==
    {queue[i] : i \in 1 .. Len(queue)}
    \cup {socket_writer[i] : i \in 1 .. Len(socket_writer)}
    \cup (IF packet = NoPacket THEN {} ELSE {packet})

\* C4 (as claimed): while the worker is streaming, no write has failed, the
\* sink is healthy and the batching buffer has never filled, every admitted
\* packet is on the socket within FLUSH_INTERVAL of its admission (the
\* worker's encode and write steps take no time on the model's clock).
C4_FlushBound ==
    ( /\ wpc \in {"recv", "write", "flush"}
      /\ io_failed = "none"
      /\ sink = <<>>
      /\ Len(socket_writer) < BUFWRITER_SIZE )
    => \A p \in Undelivered : now - p.enq <= FLUSH_INTERVAL

\* Span ids handed out so far to thread t: those its new_span calls returned
\* and the one a new_span call in progress has allocated.
Allocated(t) ==
    IdsOf(t) \cup (IF tpc[t] # "idle" /\ call[t].kind = "NewSpan"
                     THEN {call[t].span} ELSE {})

\* C5: the span ids allocated by the new_span calls of all threads are
\* exactly 1..n after n allocations (so never 0, increasing by one per
\* allocation), no id is handed to two calls, and the ids returned to one
\* thread increase strictly in call order.
C5_SpanIds ==
    /\ UNION {Allocated(t) : t \in Threads} = 1 .. (NEXT_ID - 1)
    /\ \A t, u \in Threads : t # u => Allocated(t) \cap Allocated(u) = {}
    /\ \A t \in Threads :
         \A ij \in Pairs(ret[t]) : ret[t][ij[1]] < ret[t][ij[2]]

\* C5 witness: one thread was returned ids 1 and 3 while another thread
\* allocated id 2 between them.
C5_Witness ==
    \E t, u \in Threads :
        /\ ret[t] = <<1, 3>>
        /\ ret[u] = <<2>>

\* C6: new_span returns its freshly allocated id however send() ends
\* (enqueued, skipped because enabled is false, or failed because the receiver
\* is gone), and the id it allocates is positive and greater than every id
\* returned before the call.
C6_NewSpanReturnsId ==
    [][\A t \in Threads :
         /\ (tpc[t] = "idle" /\ tpc'[t] = "load" /\ call'[t].kind = "NewSpan")
              => /\ call'[t].span >= 1
                 /\ \A u \in Threads : \A id \in IdsOf(u) : call'[t].span > id
         /\ (tpc[t] # "idle" /\ tpc'[t] = "idle" /\ call[t].kind = "NewSpan")
              => ret'[t] = Append(ret[t], call[t].span)
      ]_vars

\* C6 witness: one new_span call returned its id although enabled was false,
\* another although its enqueue failed on the dropped receiver.
C6_Witness ==
    \E t, u \in Threads :
        /\ tpc[t] = "idle" /\ call[t] # NoPacket /\ call[t].kind = "NewSpan"
        /\ outcome[t] = "skipped"
        /\ ret[t] # <<>> /\ ret[t][Len(ret[t])] = call[t].span
        /\ tpc[u] = "idle" /\ call[u] # NoPacket /\ call[u].kind = "NewSpan"
        /\ outcome[u] = "failed"
        /\ ret[u] # <<>> /\ ret[u][Len(ret[u])] = call[u].span

\* C7: the channel never holds more than MPSC_CHANNEL_BOUND packets; a send
\* on a full channel with the receiver alive keeps its thread inside send
\* with its packet; and while the receiver is alive the channel only loses
\* its oldest packet, to the worker's recv.
C7_NoDiscard ==
    [][/\ Len(queue') <= MPSC_CHANNEL_BOUND
       /\ \A t \in Threads :
            (tpc[t] = "send" /\ receiver /\ Len(queue) = MPSC_CHANNEL_BOUND)
              => (tpc'[t] = "send" /\ call'[t] = call[t])
       /\ receiver' =>
            \/ queue' = queue
            \/ queue # <<>> /\ queue' = Tail(queue) /\ wpc = "recv"
            \/ \E t \in Threads :
                 tpc[t] = "send" /\ queue' = Append(queue, Admitted(t))
      ]_vars

\* C7 witness: a producer is blocked in send on a full channel while the
\* worker is alive.
C7_Witness ==
    /\ BlockedSenders # {}
    /\ wpc \in {"connect", "recv", "write", "flush"}

\* Packets admitted to the channel and not yet on the socket.
InFlight == Cardinality(Undelivered)

\* C8 (as claimed): with a stalled sink, once MPSC_CHANNEL_BOUND packets are
\* in flight a producer inside send stays there for as long as the sink
\* stays stalled.
C8_BlocksAtBoundInFlight ==
    [][\A t \in Threads :
         ( /\ stalled /\ stalled'
           /\ receiver
           /\ InFlight >= MPSC_CHANNEL_BOUND
           /\ tpc[t] = "send" )
         => tpc'[t] = "send"
      ]_vars

\* C8 (amended): a producer inside send blocks exactly while the channel
\* itself holds MPSC_CHANNEL_BOUND packets (packets the worker has taken are
\* in flight without counting), it leaves send only by having its packet
\* admitted, and once the worker is itself blocked on the stalled socket no
\* slot is freed while the sink stays stalled.
C8_BlocksAtChannelBound ==
    [][\A t \in Threads :
         (tpc[t] = "send" /\ receiver) =>
           /\ Len(queue) = MPSC_CHANNEL_BOUND => tpc'[t] = "send"
           /\ tpc'[t] = "idle" =>
                /\ Len(queue) < MPSC_CHANNEL_BOUND
                /\ queue' = Append(queue, Admitted(t))
           /\ ( /\ Len(queue) = MPSC_CHANNEL_BOUND
                /\ stalled /\ stalled'
                /\ ~WorkerCanStep )
              => (queue' = queue /\ tpc'[t] = "send")
      ]_vars

\* C8 witness: the sink is stalled, the worker is blocked writing to it, the
\* channel is full, a producer is blocked in send, and more packets are in
\* flight than the channel holds.
C8_Witness ==
    /\ stalled
    /\ ~WorkerCanStep
    /\ BlockedSenders # {}
    /\ InFlight > MPSC_CHANNEL_BOUND

\* The worker thread has terminated, by returning or by panicking.
WorkerTerminated == wpc \in {"returned", "panicked"}

\* C9: once the worker thread has terminated, every facade call in progress
\* returns, including one that was blocked in send on a full channel.
C9_CallsReturn ==
    \A t \in Threads :
        (WorkerTerminated /\ tpc[t] # "idle") ~> (tpc[t] = "idle")

\* C9 witness: a thread that was blocked in send on a full channel when the
\* worker terminated has returned from its call.
C9_Witness ==
    /\ WorkerTerminated
    /\ \E t \in woken : tpc[t] = "idle" /\ outcome[t] = "failed"

\* C10: from the failure of write_all on, enabled is false and the worker is
\* returning or has returned; after it the worker takes no packet from the
\* channel and holds none.
C10_WriteFailureFatal ==
    [][io_failed' = "write" =>
         /\ enabled' = FALSE
         /\ wpc' \in {"return", "returned"}
         /\ io_failed = "write" =>
              /\ packet' \in {packet, NoPacket}
              /\ receiver' => Len(queue') >= Len(queue)
              /\ wpc' # wpc => wpc' = "returned"
      ]_vars

\* C10 witness: the worker has returned after a failed write_all.
C10_Witness ==
    /\ io_failed = "write"
    /\ wpc = "returned"
    /\ enabled = FALSE

\* All span ids returned to the producer threads so far.
Returned == UNION {IdsOf(t) : t \in Threads}

\* C11: when no collector listens at startup the single connect attempt
\* fails: from then on enabled is false, the worker is returning or has
\* returned and never connects again, nothing is buffered and nothing is ever
\* written to the sink (also when a collector starts listening later), while
\* a new_span called after the failure still gets a valid id greater than
\* every id returned before the call, and returns it.
C11_ConnectFailureFatal ==
    [][io_failed' = "connect" =>
         /\ enabled' = FALSE
         /\ wpc' \in {"return", "returned"}
         /\ socket_writer' = <<>>
         /\ sink' = <<>>
         /\ \A t \in Threads :
              ( /\ io_failed = "connect"
                /\ tpc[t] = "idle" /\ tpc'[t] = "load"
                /\ call'[t].kind = "NewSpan" )
              => /\ call'[t].span >= 1
                 /\ \A id \in Returned : id < call'[t].span
         /\ \A t \in Threads :
              ( /\ tpc[t] # "idle" /\ tpc'[t] = "idle"
                /\ call[t].kind = "NewSpan" )
              => ret'[t] = Append(ret[t], call[t].span)
      ]_vars

\* C11 witness: the connect failed and the worker has returned, a collector
\* has started listening since, and a thread whose calls found the pipeline
\* disabled has got two span ids.
C11_Witness ==
    /\ io_failed = "connect"
    /\ wpc = "returned"
    /\ listening
    /\ sink = <<>>
    /\ \E t \in Threads :
         /\ outcome[t] = "skipped"
         /\ Len(ret[t]) >= 2
         /\ ret[t][1] < ret[t][2]

\* The packets on their way, oldest first: written, buffered, held by the
\* worker, queued.
Pipeline ==
    sink \o socket_writer \o (IF packet = NoPacket THEN <<>> ELSE <<packet>>)
         \o queue

\* Thread t's packet of its n-th call is at position i of s.
At(s, i, t, n) == s[i].src = t /\ s[i].n = n

\* C12: a packet that fails to serialize is dropped and nothing else happens:
\* the step takes exactly that packet from the channel, leaves enabled, the
\* buffered and the written packets as they are and the worker receiving; and
\* the packets on their way to the sink always keep the call order of each
\* thread, so those enqueued before and after the dropped one are written in
\* order.
C12_SerializeFailureLocal ==
    /\ [](\A ij \in Pairs(Pipeline) :
            Pipeline[ij[1]].src = Pipeline[ij[2]].src
              => Pipeline[ij[1]].n < Pipeline[ij[2]].n)
    /\ [][( /\ wpc = "recv"
            /\ queue # <<>>
            /\ queue' = Tail(queue)
            /\ packet' = NoPacket )
         => /\ enabled' = enabled
            /\ wpc' = "recv"
            /\ receiver'
            /\ io_failed' = io_failed
            /\ socket_writer' = socket_writer
            /\ sink' = sink
            /\ last_flush' = last_flush
      ]_vars

\* C12 witness: the pipeline is enabled and intact, a thread's first and third
\* packet are at the sink in that order, and its second packet, which the
\* channel had admitted, is nowhere: it failed to serialize.
C12_Witness ==
    /\ enabled = TRUE
    /\ io_failed = "none"
    /\ wpc = "recv"
    /\ \E t \in Threads :
         /\ tpc[t] = "idle"
         /\ \E ij \in Pairs(sink) :
              At(sink, ij[1], t, 1) /\ At(sink, ij[2], t, 3)
         /\ \A i \in 1 .. Len(Pipeline) : ~At(Pipeline, i, t, 2)

\* The severities from the least to the most verbose, with OFF below all.
SeverityOrder == <<OFF, ERROR, WARN, INFO, DEBUG, TRACE>>

\* Position of a level or filter in SeverityOrder.
Rank(x) == CHOOSE i \in 1 .. Len(SeverityOrder) : SeverityOrder[i] = x

\* level is at or below the maximum level max.
AtOrBelow(level, max) == Rank(level) <= Rank(max)

\* C13: severity filtering end to end: no packet of a callsite strictly above
\* max_level ever reaches the sink, and while the pipeline is enabled every
\* packet of a call at or below max_level that the worker has serialized
\* reaches the sink (or the pipeline gets disabled).
C13_SeverityFiltering ==
    /\ [](\A i \in 1 .. Len(sink) :
            AtOrBelow(CallsiteLevel(sink[i].src), max_level))
    /\ \A t \in Threads : \A n \in 1 .. MaxCalls :
         ( /\ enabled
           /\ AtOrBelow(CallsiteLevel(t), max_level)
           /\ packet # NoPacket
           /\ packet.src = t /\ packet.n = n )
         ~> ( \/ ~enabled
              \/ \E i \in 1 .. Len(sink) : At(sink, i, t, n) )

\* C14: enabled(level) is true exactly when level is at or below max_level,
\* for every level and every max_level including OFF, in every state of the
\* latch and of the worker; no step changes its result.
C14_EnabledIffAtOrBelow ==
    /\ [](\A level \in Levels :
            EnabledFor(level) <=> AtOrBelow(level, max_level))
    /\ [][\A level \in Levels : EnabledFor(level)' = EnabledFor(level)]_vars

\* C14 witness: with the pipeline disabled and the worker gone, the callsites
\* of thread 1 are still enabled (its last call went through the facade) and
\* those of thread 2 still filtered (it executed one without a facade call).
C14_Witness ==
    /\ enabled = FALSE
    /\ WorkerTerminated
    /\ EnabledFor(CallsiteLevel(1))
    /\ outcome[1] = "skipped"
    /\ ~EnabledFor(CallsiteLevel(2))
    /\ ncalls[2] > 0

\* The span thread t is in: the most recently entered one it has not exited,
\* None when there is no such span.
CurrentSpan(t) ==
    IF entered[t] = <<>> THEN None ELSE entered[t][Len(entered[t])]

\* C15: the packet of an event carries as parent_span the span the calling
\* thread is in at the call, and None exactly when it is in no span.
C15_EventParent ==
    [][\A t \in Threads :
         (tpc[t] = "idle" /\ tpc'[t] = "load" /\ call'[t].kind = "Event")
           => call'[t].span = CurrentSpan(t)
      ]_vars

\* C18: a worker that has terminated after an I/O failure, the failure of a
\* timed flush included, has left enabled false.
C18_FlushFailureDisables ==
    (WorkerTerminated /\ io_failed # "none") => enabled = FALSE

\* C16 as claimed: the first subscriber stays the global default, and once a
\* second init call has failed there is no second worker running, no second
\* channel with a sender and no second connection to the collector.
C16_NothingLeftAtFailure ==
    /\ global_default = 1
    /\ init_pc = "panicked" => (~Worker2Active /\ ~sender2 /\ ~Connected2)

\* C16: the first subscriber stays the global default and a second init call
\* panics; the worker it spawned before that, which may connect to the
\* collector, terminates afterwards, and the first pipeline is not touched
\* by any of it.
C16_SecondInitFails ==
    /\ [](global_default = 1 /\ init_pc # "returned")
    /\ [](init_pc = "panicked" => ~sender2)
    /\ (init_pc = "panicked") ~> (~Worker2Active /\ ~Connected2)
    /\ [][second_vars' # second_vars => first_vars' = first_vars]_vars

\* C16 witness: the second init call has panicked and the worker it had
\* spawned, which had connected to the collector, has terminated, while the
\* first pipeline is streaming and has just taken a packet.
C16_Witness ==
    /\ init_pc = "panicked"
    /\ wpc2 = "panicked"
    /\ global_default = 1
    /\ enabled = TRUE
    /\ wpc = "write"
    /\ \E t \in Threads : outcome[t] = "sent"

\* s is well-formed text: every character starts with its first byte followed
\* by exactly its continuation bytes.
RECURSIVE ValidText(_)
ValidText(s) ==
    \/ s = <<>>
    \/ /\ Head(s) \in Utf8Widths
       /\ Head(s) <= Len(s)
       /\ \A i \in 2 .. Head(s) : s[i] = Continuation
       /\ ValidText(Drop(s, Head(s)))

\* C17: the stored name has name_len <= MAX_INFO_SIZE, its bytes are the
\* first name_len bytes of the original, the cut is on a character boundary
\* and no longer prefix that fits the buffer ends on one, and the stored
\* bytes are well-formed text.
C17_NameTruncation ==
    /\ name_len <= MAX_INFO_SIZE
    /\ name_len <= Len(name)
    /\ name_buf = Take(name, name_len)
    /\ IsCharBoundary(name, name_len)
    /\ \A k \in name_len + 1 .. MAX_INFO_SIZE :
         k <= Len(name) => ~IsCharBoundary(name, k)
    /\ ValidText(name_buf)

\* C17 witness: a name longer than the buffer whose character at the
\* capacity is a multi-byte one that does not fit: the stored name is shorter
\* than the buffer and not empty.
C17_Witness ==
    /\ Len(name) > MAX_INFO_SIZE
    /\ name[MAX_INFO_SIZE + 1] = Continuation
    /\ 0 < name_len /\ name_len < MAX_INFO_SIZE

\* C19: a send that fails because the receiver is gone is followed by the
\* store of enabled = false and a normal return that changes nothing else
\* (also when enabled was false already); and a call that loads enabled =
\* false returns at once, so only calls that loaded true before the store
\* ever get to the channel.
C19_SendFailureDisables ==
    [][\A t \in Threads :
         /\ (tpc[t] = "send" /\ ~receiver /\ tpc'[t] # "send")
              => (tpc'[t] = "store" /\ enabled' = enabled)
         /\ (tpc[t] = "store" /\ tpc'[t] # "store")
              => /\ enabled' = FALSE
                 /\ tpc'[t] = "idle"
                 /\ outcome'[t] = "failed"
                 /\ <<queue, sink, socket_writer>>' = <<queue, sink, socket_writer>>
         /\ (~enabled /\ tpc[t] = "load" /\ tpc'[t] # "load")
              => /\ tpc'[t] = "idle"
                 /\ outcome'[t] = "skipped"
                 /\ queue' = queue
      ]_vars

\* C19 witness: the worker panicked in the timed flush and left enabled true;
\* two threads loaded true, both found the channel disconnected, and both
\* stored false and returned, the second store finding it false already.
C19_Witness ==
    /\ io_failed = "flush"
    /\ wpc = "panicked"
    /\ enabled = FALSE
    /\ \A t \in Threads : tpc[t] = "idle" /\ outcome[t] = "failed"

\* The state of the worker: Connecting until the connect attempt is over,
\* Streaming from a successful connect on, Disabled once the thread has ended.
\* A worker on its way out (returning or unwinding, its locals not dropped
\* yet) is still in the state it leaves.
Phase ==
    CASE wpc = "connect" -> "Connecting"
      [] wpc \in {"recv", "write", "flush"} -> "Streaming"
      [] wpc \in {"return", "unwind"} ->
            IF io_failed = "connect" THEN "Connecting" ELSE "Streaming"
      [] wpc \in {"returned", "panicked"} -> "Disabled"

\* C20: the worker starts Connecting; it enters Streaming only from
\* Connecting by a connect that succeeds, and otherwise changes state only by
\* becoming Disabled; nothing leaves Disabled, and in Disabled the worker
\* takes nothing from the channel and writes nothing.
C20_WorkerStates ==
    /\ Phase = "Connecting"
    /\ [][/\ Phase' # Phase =>
              \/ /\ Phase = "Connecting" /\ Phase' = "Streaming"
                 /\ listening /\ io_failed = "none"
              \/ Phase' = "Disabled"
          /\ Phase = "Disabled" =>
              /\ Phase' = "Disabled"
              /\ worker_vars' = worker_vars
              /\ queue' = queue
              /\ receiver' = receiver
      ]_vars

\* C20 witness: the worker has streamed packets to the sink and is Disabled,
\* a collector is listening, and a producer has called the facade since.
C20_Witness ==
    /\ Phase = "Disabled"
    /\ sink # <<>>
    /\ listening
    /\ \E t \in Threads : tpc[t] = "idle" /\ outcome[t] \in {"skipped", "failed"}

\* C21: a send that finds enabled false is a no-op: it can always take its
\* step, also with the channel full, and that step returns to the caller
\* leaving the channel, the latch, the receiver and the worker as they are.
C21_DisabledSendNoOp ==
    /\ [](\A t \in Threads :
            (tpc[t] = "load" /\ ~enabled) => ENABLED SendLoad(t))
    /\ [][\A t \in Threads :
            (tpc[t] = "load" /\ ~enabled /\ tpc'[t] # "load")
              => /\ tpc'[t] = "idle"
                 /\ outcome'[t] = "skipped"
                 /\ queue' = queue
                 /\ enabled' = enabled
                 /\ receiver' = receiver
                 /\ worker_vars' = worker_vars
      ]_vars

\* C21 witness: a call has returned through the fast path while the channel
\* was full and its receiver still existed.
C21_Witness ==
    /\ enabled = FALSE
    /\ receiver
    /\ Len(queue) = MPSC_CHANNEL_BOUND
    /\ \E t \in Threads : tpc[t] = "idle" /\ outcome[t] = "skipped"

\* s can be got from t by leaving elements out.
RECURSIVE IsSubseq(_, _)
IsSubseq(s, t) ==
    IF s = <<>> THEN TRUE
    ELSE IF t = <<>> THEN FALSE
    ELSE IF Head(s) = Head(t) THEN IsSubseq(Tail(s), Tail(t))
    ELSE IsSubseq(s, Tail(t))

\* No element occurs twice in s.
Distinct(s) == \A ij \in Pairs(s) : s[ij[1]] # s[ij[2]]

C23_NoSpuriousDisable ==
    /\ enabled = FALSE => (io_failed \in {"connect", "write"} \/ ~receiver)
    /\ (wpc # "connect" /\ io_failed = "none")
         => (enabled = TRUE /\ Phase = "Streaming" /\ receiver)

\* C23 witness: the connect succeeded and nothing has failed; the budget of
\* calls is used up, packets of both threads were admitted, one failed to
\* serialize, packets are at the sink, and enabled is still true.
C23_Witness ==
    /\ io_failed = "none"
    /\ enabled = TRUE
    /\ Phase = "Streaming"
    /\ TotalCalls = MaxCalls
    /\ \E ij \in Pairs(admitted) : admitted[ij[1]].src # admitted[ij[2]].src
    /\ sink # <<>>
    /\ Len(Pipeline) < Len(admitted)

====
